---------------------------- MODULE Spec2Model ----------------------------
(***************************************************************************)
(* Type-0 PPKTP wavelength-vs-temperature tuning (src/app.py).             *)
(*                                                                         *)
(* The program computes with IEEE-754 binary64 numbers (Python float and   *)
(* numpy.float64).  The model keeps that arithmetic: a number is a record  *)
(* [k, s, e, m] standing for (-1)^s * m * 2^e with m a natural number of   *)
(* at most 53 bits, or signed zero, signed infinity, or NaN.  Every        *)
(* operation rounds to nearest, ties to even.  TLC's integers are 32 bits  *)
(* wide, so mantissas are naturals in base 2^15, least limb first.         *)
(* pow(w, n) is taken correctly rounded (the C library promises < 1 ulp).  *)
(* A Python float division by zero raises ZeroDivisionError; the model     *)
(* carries that as the absorbing value of kind "zde".  A numpy.float64     *)
(* division by zero yields inf or nan.                                     *)
(***************************************************************************)
EXTENDS Integers, Sequences, FiniteSets, TLC

(***************************************************************************)
(* Natural numbers of any size: sequences of limbs in base 2^15, least     *)
(* significant limb first, no leading zero limb; zero is << >>.            *)
(***************************************************************************)
BASE == 2^15

(***************************************************************************)
(* Every arithmetic operation is applied through Ap, which looks the       *)
(* operation up by name: X(a, b) applies the definition X_ to the values   *)
(* of a and b.                                                             *)
(***************************************************************************)
RECURSIVE Ap(_, _)
BMul(a, b) == Ap("BMul", << a, b >>)
BDivMod(a, b) == Ap("BDivMod", << a, b >>)
BSqrt(a) == Ap("BSqrt", << a >>)
FRound(s, M, e, sticky) == Ap("FRound", << s, M, e, sticky >>)
FInt(n) == Ap("FInt", << n >>)
FAdd(a, b) == Ap("FAdd", << a, b >>)
FMul(a, b) == Ap("FMul", << a, b >>)
FDivN(a, b) == Ap("FDivN", << a, b >>)
FSqrt(a) == Ap("FSqrt", << a >>)
FPow(py, a, n) == Ap("FPow", << py, a, n >>)
FCmp(a, b) == Ap("FCmp", << a, b >>)

RECURSIVE BStrip(_)
BStrip(a) ==
    IF a = << >> THEN a
    ELSE IF a[Len(a)] # 0 THEN a
    ELSE BStrip(SubSeq(a, 1, Len(a) - 1))

BFromInt(n) ==
    IF n = 0 THEN << >>
    ELSE IF n < BASE THEN << n >>
    ELSE IF n < BASE * BASE THEN << n % BASE, n \div BASE >>
    ELSE << n % BASE, (n \div BASE) % BASE, n \div (BASE * BASE) >>

RECURSIVE BCmpRec(_, _, _)
BCmpRec(a, b, i) ==
    IF i = 0 THEN 0
    ELSE IF a[i] > b[i] THEN 1
    ELSE IF a[i] < b[i] THEN -1
    ELSE BCmpRec(a, b, i - 1)

BCmp(a, b) ==
    IF Len(a) > Len(b) THEN 1
    ELSE IF Len(a) < Len(b) THEN -1
    ELSE BCmpRec(a, b, Len(a))

RECURSIVE BAddRec(_, _, _, _, _)
BAddRec(a, b, i, c, acc) ==
    IF i > Len(a) /\ i > Len(b)
    THEN (IF c = 0 THEN acc ELSE Append(acc, c))
    ELSE LET x == (IF i <= Len(a) THEN a[i] ELSE 0)
                  + (IF i <= Len(b) THEN b[i] ELSE 0) + c
             r == Append(acc, x % BASE)
         IN  IF Len(r) < i THEN << >>
             ELSE BAddRec(a, b, i + 1, x \div BASE, r)

BAdd(a, b) == BAddRec(a, b, 1, 0, << >>)

RECURSIVE BSubRec(_, _, _, _, _)
BSubRec(a, b, i, br, acc) ==
    IF i > Len(a) THEN acc
    ELSE LET x == a[i] - (IF i <= Len(b) THEN b[i] ELSE 0) - br
             r == Append(acc, IF x < 0 THEN x + BASE ELSE x)
         IN  IF Len(r) < i THEN << >>
             ELSE BSubRec(a, b, i + 1, IF x < 0 THEN 1 ELSE 0, r)

\* a - b, for a >= b
BSub(a, b) == BStrip(BSubRec(a, b, 1, 0, << >>))

RECURSIVE BMulSmallRec(_, _, _, _, _)
BMulSmallRec(a, d, i, c, acc) ==
    IF i > Len(a)
    THEN (IF c = 0 THEN acc ELSE Append(acc, c))
    ELSE LET x == a[i] * d + c
             r == Append(acc, x % BASE)
         IN  IF Len(r) < i THEN << >>
             ELSE BMulSmallRec(a, d, i + 1, x \div BASE, r)

\* a * d, for 0 <= d < BASE
BMulSmall(a, d) ==
    IF d = 0 \/ a = << >> THEN << >>
    ELSE IF d = 1 THEN a
    ELSE BMulSmallRec(a, d, 1, 0, << >>)

Zeros(n) == [i \in 1..n |-> 0]

\* a * BASE^n
BShlLimbs(a, n) == IF a = << >> \/ n = 0 THEN a ELSE Zeros(n) \o a

RECURSIVE BMulRec(_, _, _, _)
BMulRec(a, b, j, acc) ==
    IF j > Len(b) THEN acc
    ELSE LET r == BAdd(acc, BShlLimbs(BMulSmall(a, b[j]), j - 1))
         IN  IF Len(r) < 0 THEN << >> ELSE BMulRec(a, b, j + 1, r)

BMul_(a, b) == BMulRec(a, b, 1, << >>)

RECURSIVE BDivSmallRec(_, _, _, _, _)
BDivSmallRec(a, d, i, r, acc) ==
    IF i = 0 THEN acc
    ELSE LET cur == r * BASE + a[i]
             nq  == << cur \div d >> \o acc
         IN  IF Len(nq) < 0 THEN << >>
             ELSE BDivSmallRec(a, d, i - 1, cur % d, nq)

\* a \div d, for 0 < d <= BASE
BDivSmall(a, d) ==
    IF d = 1 THEN a ELSE BStrip(BDivSmallRec(a, d, Len(a), 0, << >>))

\* a * 2^n
BShl(a, n) == BShlLimbs(BMulSmall(a, 2^(n % 15)), n \div 15)

\* a \div 2^n
BShr(a, n) ==
    IF n \div 15 >= Len(a) THEN << >>
    ELSE BDivSmall(SubSeq(a, (n \div 15) + 1, Len(a)), 2^(n % 15))

\* a % 2^n = 0
BLowZero(a, n) ==
    /\ \A i \in 1..(n \div 15) : i > Len(a) \/ a[i] = 0
    /\ (n \div 15) + 1 > Len(a) \/ a[(n \div 15) + 1] % (2^(n % 15)) = 0

BOdd(a) == a # << >> /\ a[1] % 2 = 1

\* the number of bits of n, 0 <= n < BASE
IntBitLen(n) == CHOOSE h \in 0..15 : n < 2^h /\ (h = 0 \/ n >= 2^(h - 1))

BBitLen(a) ==
    IF a = << >> THEN 0 ELSE 15 * (Len(a) - 1) + IntBitLen(a[Len(a)])

\* the quotient digit of r by b (b's top limb >= BASE/2, r < b * BASE)
RECURSIVE BFixDigit(_, _, _)
BFixDigit(b, r, q) ==
    IF BCmp(BMulSmall(b, q), r) > 0 THEN BFixDigit(b, r, q - 1) ELSE q

BDigit(b, r) ==
    IF BCmp(r, b) < 0 THEN 0
    ELSE LET n   == Len(b)
             top == (IF Len(r) > n THEN r[n + 1] * BASE ELSE 0) + r[n]
             est == top \div b[n]
         IN  BFixDigit(b, r, IF est > BASE - 1 THEN BASE - 1 ELSE est)

RECURSIVE BDivRec(_, _, _, _, _)
BDivRec(a, b, i, r, q) ==
    IF i = 0 THEN << BStrip(q), r >>
    ELSE LET r1 == BStrip(<< a[i] >> \o r)
             d  == BDigit(b, r1)
             r2 == BSub(r1, BMulSmall(b, d))
             q2 == << d >> \o q
         IN  IF Len(r1) < 0 \/ d < 0 \/ Len(r2) < 0 \/ Len(q2) < 0 THEN << >>
             ELSE BDivRec(a, b, i - 1, r2, q2)

\* << a \div b, whether b divides a >>, for b > 0 (schoolbook long division,
\* begun below the limbs of a that cannot hold b)
BDivMod_(a, b) ==
    LET sh  == 15 - IntBitLen(b[Len(b)])
        a2  == BShl(a, sh)
        b2  == BShl(b, sh)
        k   == IF Len(b2) - 1 < Len(a2) THEN Len(b2) - 1 ELSE Len(a2)
        res == BDivRec(a2, b2, Len(a2) - k,
                       SubSeq(a2, Len(a2) - k + 1, Len(a2)), << >>)
    IN  << res[1], res[2] = << >> >>

\* floor of the square root of n < 2^30, found in two digits of base 182
ISqrt(n) ==
    LET hi == CHOOSE h \in 0..180 :
                  (182 * h) * (182 * h) <= n /\ n < (182 * h + 182) * (182 * h + 182)
    IN  CHOOSE r \in (182 * hi)..(182 * hi + 181) : r * r <= n /\ n < (r + 1) * (r + 1)

RECURSIVE BSqrtRec(_, _)
BSqrtRec(a, x) ==
    LET y == BDivSmall(BAdd(x, BDivMod(a, x)[1]), 2)
    IN  IF BCmp(y, x) < 0 THEN BSqrtRec(a, y) ELSE x

\* floor of the square root of a (Newton's iteration from above)
BSqrt_(a) ==
    IF a = << >> THEN << >>
    ELSE LET bl == BBitLen(a)
             sh == IF bl <= 30 THEN 0 ELSE 2 * ((bl - 29) \div 2)
             t  == BShr(a, sh)
             ti == (IF Len(t) > 1 THEN t[2] * BASE ELSE 0) + t[1]
         IN  BSqrtRec(a, BShl(BFromInt(ISqrt(ti) + 1), sh \div 2))

(***************************************************************************)
(* IEEE-754 binary64.  A finite nonzero number is (-1)^s * m * 2^e with    *)
(* 2^52 <= m < 2^53 (normal) or e = EMin and m < 2^52 (subnormal).         *)
(***************************************************************************)
EMin == -(1022 + 52)
EMax == 1023 - 52

FNum(s, e, m) == [k |-> "num", s |-> s, e |-> e, m |-> m]
FZero(s) == [k |-> "zero", s |-> s, e |-> 0, m |-> << >>]
FInf(s) == [k |-> "inf", s |-> s, e |-> 0, m |-> << >>]
FNaN == [k |-> "nan", s |-> 0, e |-> 0, m |-> << >>]
\* a raised ZeroDivisionError in place of a value
FZde == [k |-> "zde", s |-> 0, e |-> 0, m |-> << >>]
Raised(a) == a.k = "zde"

\* (-1)^s * (M + f) * 2^e rounded to nearest-even, where 0 < f < 1 if sticky
\* and f = 0 otherwise
FRound_(s, M, e, sticky) ==
    IF M = << >> THEN FZero(s)
    ELSE LET bl == BBitLen(M)
             e1 == IF e + bl - 53 < EMin THEN EMin ELSE e + bl - 53
             sh == e1 - e
         IN  IF sh <= 0
             THEN (IF e1 > EMax THEN FInf(s) ELSE FNum(s, e1, BShl(M, -sh)))
             ELSE LET t    == BShr(M, sh - 1)
                      q    == BDivSmall(t, 2)
                      rest == sticky \/ ~BLowZero(M, sh - 1)
                      up   == BOdd(t) /\ (rest \/ BOdd(q))
                      m1   == IF up THEN BAdd(q, << 1 >>) ELSE q
                  IN  IF m1 = << >> THEN FZero(s)
                      ELSE IF BBitLen(m1) > 53
                      THEN (IF e1 + 1 > EMax THEN FInf(s)
                            ELSE FNum(s, e1 + 1, BDivSmall(m1, 2)))
                      ELSE IF e1 > EMax THEN FInf(s)
                      ELSE FNum(s, e1, m1)

FInt_(n) == FRound(IF n < 0 THEN 1 ELSE 0, BFromInt(IF n < 0 THEN -n ELSE n), 0, FALSE)

FIsNaN(a) == a.k = "nan"
FIsFinite(a) == a.k \in {"num", "zero"}

FNeg(a) == IF a.k \in {"nan", "zde"} THEN a ELSE [a EXCEPT !.s = 1 - a.s]
FAbs(a) == IF a.k \in {"nan", "zde"} THEN a ELSE [a EXCEPT !.s = 0]

FAdd_(a, b) ==
    IF a.k = "zde" \/ b.k = "zde" THEN FZde
    ELSE IF a.k = "nan" \/ b.k = "nan" THEN FNaN
    ELSE IF a.k = "inf" THEN (IF b.k = "inf" /\ b.s # a.s THEN FNaN ELSE a)
    ELSE IF b.k = "inf" THEN b
    ELSE IF a.k = "zero"
    THEN (IF b.k = "zero" THEN FZero(IF a.s = 1 /\ b.s = 1 THEN 1 ELSE 0) ELSE b)
    ELSE IF b.k = "zero" THEN a
    ELSE LET hi == IF a.e >= b.e THEN a ELSE b
             lo == IF a.e >= b.e THEN b ELSE a
             d  == hi.e - lo.e
         IN  IF d > 64
             THEN (IF hi.s = lo.s
                   THEN FRound(hi.s, BShl(hi.m, 2), hi.e - 2, TRUE)
                   ELSE FRound(hi.s, BSub(BShl(hi.m, 2), << 1 >>), hi.e - 2, TRUE))
             ELSE LET A == BShl(hi.m, d)
                      c == BCmp(A, lo.m)
                  IN  IF hi.s = lo.s THEN FRound(hi.s, BAdd(A, lo.m), lo.e, FALSE)
                      ELSE IF c = 0 THEN FZero(0)
                      ELSE IF c > 0 THEN FRound(hi.s, BSub(A, lo.m), lo.e, FALSE)
                      ELSE FRound(lo.s, BSub(lo.m, A), lo.e, FALSE)

FSub(a, b) == FAdd(a, FNeg(b))

FMul_(a, b) ==
    IF a.k = "zde" \/ b.k = "zde" THEN FZde
    ELSE IF a.k = "nan" \/ b.k = "nan" THEN FNaN
    ELSE IF a.k = "inf" \/ b.k = "inf"
    THEN (IF a.k = "zero" \/ b.k = "zero" THEN FNaN ELSE FInf((a.s + b.s) % 2))
    ELSE IF a.k = "zero" \/ b.k = "zero" THEN FZero((a.s + b.s) % 2)
    ELSE FRound((a.s + b.s) % 2, BMul(a.m, b.m), a.e + b.e, FALSE)

\* numpy.float64 division: x/0 is inf or nan (with a warning), never raises
FDivN_(a, b) ==
    IF a.k = "zde" \/ b.k = "zde" THEN FZde
    ELSE IF a.k = "nan" \/ b.k = "nan" THEN FNaN
    ELSE IF a.k = "inf" THEN (IF b.k = "inf" THEN FNaN ELSE FInf((a.s + b.s) % 2))
    ELSE IF b.k = "inf" THEN FZero((a.s + b.s) % 2)
    ELSE IF b.k = "zero" THEN (IF a.k = "zero" THEN FNaN ELSE FInf((a.s + b.s) % 2))
    ELSE IF a.k = "zero" THEN FZero((a.s + b.s) % 2)
    ELSE LET n  == 56 + BBitLen(b.m) - BBitLen(a.m)
             dm == BDivMod(BShl(a.m, n), b.m)
         IN  FRound((a.s + b.s) % 2, dm[1], a.e - b.e - n, ~dm[2])

\* Python float division: a zero divisor raises ZeroDivisionError
FDivP(a, b) ==
    IF a.k = "zde" \/ b.k = "zde" \/ b.k = "zero" THEN FZde ELSE FDivN(a, b)

\* a / b where py tells whether both operands are Python floats
FDiv(py, a, b) == IF py THEN FDivP(a, b) ELSE FDivN(a, b)

FSqrt_(a) ==
    IF a.k \in {"zde", "nan", "zero"} THEN a
    ELSE IF a.s = 1 THEN FNaN
    ELSE IF a.k = "inf" THEN a
    ELSE LET n0 == 110 - BBitLen(a.m)
             n  == IF (a.e - n0) % 2 = 0 THEN n0 ELSE n0 + 1
             M  == BShl(a.m, n)
             r  == BSqrt(M)
         IN  FRound(0, r, (a.e - n) \div 2, BCmp(BMul(r, r), M) # 0)

RECURSIVE BPow(_, _)
BPow(a, n) == IF n = 0 THEN << 1 >> ELSE BMul(a, BPow(a, n - 1))

\* a ** n for n in {2, -1, -2, -3}, correctly rounded; 0.0 ** negative raises
\* ZeroDivisionError for a Python float and is inf for a numpy.float64
FPow_(py, a, n) ==
    IF a.k \in {"zde", "nan"} THEN a
    ELSE IF n = 2 THEN FMul(a, a)
    ELSE LET sg == IF n % 2 = 0 THEN 0 ELSE a.s
         IN  IF a.k = "inf" THEN FZero(sg)
             ELSE IF a.k = "zero" THEN (IF py THEN FZde ELSE FInf(sg))
             ELSE LET P  == BPow(a.m, -n)
                      sh == 56 + BBitLen(P)
                      dm == BDivMod(BShl(<< 1 >>, sh), P)
                  IN  FRound(sg, dm[1], n * a.e - sh, ~dm[2])

\* -1, 0, 1 as |a| <, =, > |b|; neither is NaN
FMagCmp(a, b) ==
    IF a.k = "inf" THEN (IF b.k = "inf" THEN 0 ELSE 1)
    ELSE IF b.k = "inf" THEN -1
    ELSE IF a.k = "zero" THEN (IF b.k = "zero" THEN 0 ELSE -1)
    ELSE IF b.k = "zero" THEN 1
    ELSE IF a.e > b.e THEN 1
    ELSE IF a.e < b.e THEN -1
    ELSE BCmp(a.m, b.m)

\* -1, 0, 1 as a <, =, > b; neither is NaN
FCmp_(a, b) ==
    IF a.k = "zero" /\ b.k = "zero" THEN 0
    ELSE IF a.k = "zero" THEN (IF b.s = 1 THEN 1 ELSE -1)
    ELSE IF b.k = "zero" THEN (IF a.s = 1 THEN -1 ELSE 1)
    ELSE IF a.s # b.s THEN (IF a.s = 1 THEN -1 ELSE 1)
    ELSE IF a.s = 0 THEN FMagCmp(a, b) ELSE -FMagCmp(a, b)

FOrdered(a, b) == a.k \in {"num", "zero", "inf"} /\ b.k \in {"num", "zero", "inf"}
FEq(a, b) == FOrdered(a, b) /\ FCmp(a, b) = 0
FLt(a, b) == FOrdered(a, b) /\ FCmp(a, b) < 0
FLe(a, b) == FOrdered(a, b) /\ FCmp(a, b) <= 0
FGt(a, b) == FLt(b, a)
FGe(a, b) == FLe(b, a)

\* the double nearest to the decimal literal n / d (d a power of ten)
Dec(n, d) == FDivN(FInt(n), FInt(d))

(***************************************************************************)
(* Sellmeier + thermo-optic model (src/app.py lines 15-37).  py tells      *)
(* whether the wavelength is a Python float (run's own inputs) or a        *)
(* numpy.float64 (the iterates newton passes to equation).                 *)
(***************************************************************************)
One == FInt(1)

Sz0 == Dec(212725, 100000)
Sz1 == Dec(118431, 100000)
Sz2 == Dec(514852, 10000000)
Sz3 == Dec(6603, 10000)
Sz4 == Dec(10000507, 100000)
Sz5 == Dec(968956, 100000000)
Sy0 == Dec(209930, 100000)
Sy1 == Dec(922683, 1000000)
Sy2 == Dec(467695, 10000000)
Sy3 == Dec(138404, 10000000)

\* x + y, unless a term raised; the first to raise ends the evaluation
Both(x, y) == IF Raised(x) THEN x ELSE IF Raised(y) THEN y ELSE FAdd(x, y)

\* sqrt(|c0 + (q - c) * w**2|), unless the quotient sum q raised
Dispersion(py, q, c0, c, w) ==
    IF Raised(q) THEN q
    ELSE FSqrt(FAbs(FAdd(c0, FMul(FSub(q, c), FPow(py, w, 2)))))

sellmeier(py, w, pol) ==
    IF pol = "z"
    THEN Dispersion(py, Both(FDiv(py, Sz1, FSub(FPow(py, w, 2), Sz2)),
                             FDiv(py, Sz3, FSub(FPow(py, w, 2), Sz4))),
                    Sz0, Sz5, w)
    ELSE Dispersion(py, FDiv(py, Sy1, FSub(FPow(py, w, 2), Sy2)), Sy0, Sy3, w)

Em6 == Dec(1, 1000000)
Em8 == Dec(1, 100000000)
Tz1 == Dec(41010, 10000)
Tz2 == Dec(89603, 10000)
Tz3 == Dec(99228, 10000)
Tz4 == Dec(99587, 10000)
Tz5 == Dec(31481, 10000)
Tz6 == Dec(98136, 10000)
Tz7 == Dec(10459, 1000)
Tz8 == Dec(11882, 10000)
Ty1 == Dec(26486, 10000)
Ty2 == Dec(60629, 10000)
Ty3 == Dec(63061, 10000)
Ty4 == Dec(62897, 10000)
Ty5 == Dec(13470, 10000)
Ty6 == Dec(35770, 10000)
Ty7 == Dec(22244, 10000)
Ty8 == Dec(14445, 100000)

\* c * (a1 * p3 - a2 * p2 + a3 * p1 + a4) for the powers p3, p2, p1 of w,
\* unless one of them raised
Series(p3, p2, p1, c, a1, a2, a3, a4) ==
    IF Raised(p3) THEN p3
    ELSE IF Raised(p2) THEN p2
    ELSE IF Raised(p1) THEN p1
    ELSE FMul(c, FAdd(FAdd(FSub(FMul(a1, p3), FMul(a2, p2)), FMul(a3, p1)), a4))

\* c * (a1 * w**-3 - a2 * w**-2 + a3 * w**-1 + a4), the last sign given by a4
Cubic(py, w, c, a1, a2, a3, a4) ==
    Series(FPow(py, w, -3), FPow(py, w, -2), FPow(py, w, -1), c, a1, a2, a3, a4)

temperature_dependence(py, w, pol) ==
    IF pol = "z"
    THEN Both(Cubic(py, w, Em6, Tz1, Tz2, Tz3, Tz4),
              Cubic(py, w, Em8, Tz5, Tz6, Tz7, FNeg(Tz8)))
    ELSE Both(Cubic(py, w, Em6, Ty1, Ty2, Ty3, Ty4),
              Cubic(py, w, Em8, Ty5, Ty6, Ty7, FNeg(Ty8)))

\* s + t * (T - Tref), unless s or t raised
Shifted(s, t, T, Tref) ==
    IF Raised(s) THEN s ELSE IF Raised(t) THEN t
    ELSE FAdd(s, FMul(t, FSub(T, Tref)))

n(py, w, T, pol, Tref) ==
    Shifted(sellmeier(py, w, pol), temperature_dependence(py, w, pol), T, Tref)

\* 1 / (k3 - k2 - k1), unless a wavenumber term raised
Mismatch(py, k3, k2, k1) ==
    IF Raised(k3) THEN k3
    ELSE IF Raised(k2) THEN k2
    ELSE IF Raised(k1) THEN k1
    ELSE FDiv(py, One, FSub(FSub(k3, k2), k1))

\* w3 is always a Python float; py tells whether w1, w2 and T are too (they
\* are numpy.float64 inside a sweep)
poling_period(py, w1, w2, w3, T, Tref) ==
    Mismatch(py, FDiv(py, n(TRUE, w3, T, "z", Tref), w3),
                 FDiv(py, n(py, w2, T, "z", Tref), w2),
                 FDiv(py, n(py, w1, T, "z", Tref), w1))

\* the paired wavelength 1 / (1 / w3 - 1 / w1) under energy conservation
Partner(py, w3, w1) == FDiv(py, One, FSub(FDivP(One, w3), FDiv(py, One, w1)))

\* poling_period(w1, w2, w3, T, T_ref) - target_period for the w2 of line 41
Residual(w1, w2, target_period, w3, T, Tref) ==
    IF Raised(w2) THEN w2
    ELSE FSub(poling_period(FALSE, w1, w2, w3, T, Tref), target_period)

equation(w1, target_period, w3, T, Tref) ==
    Residual(w1, Partner(FALSE, w3, w1), target_period, w3, T, Tref)

Companion == Dec(9, 10)

w1_guess(w3) == FDivP(One, FSub(FDivP(One, w3), FDivP(One, Companion)))

(***************************************************************************)
(* scipy.optimize.newton(equation, w1_guess) as src/app.py line 45 calls   *)
(* it: no derivative, so the secant method, with the library's defaults    *)
(* tol = 1.48e-8, maxiter = 50, rtol = 0, disp = True.                     *)
(***************************************************************************)
maxiter == 50
tol == FDivN(FInt(148), FMul(FInt(100000), FInt(100000)))
eps == Dec(1, 10000)

\* numpy.isclose(p, q, rtol = 0, atol = tol)
isclose(p, q) ==
    IF FIsFinite(p) /\ FIsFinite(q) THEN FLe(FAbs(FSub(p, q)), tol)
    ELSE FEq(p, q)

\* the second starting point: p1 = x0 * (1 + eps); p1 += eps if p1 >= 0 else -eps
SecondPoint(x0) ==
    LET a == FMul(x0, FAdd(One, eps))
    IN  FAdd(a, IF FGe(a, FZero(0)) THEN eps ELSE FNeg(eps))

\* one secant step from (p0, q0), (p1, q1), p1 being the later point
SecantStep(a0, a1, b0, b1) ==
    IF FGt(FAbs(b1), FAbs(b0))
    THEN FDivN(FAdd(FMul(FDivN(FNeg(b0), b1), a1), a0),
               FSub(One, FDivN(b0, b1)))
    ELSE FDivN(FAdd(FMul(FDivN(FNeg(b1), b0), a0), a1),
               FSub(One, FDivN(b1, b0)))

\* numpy.linspace(lo, hi, num)[k], 0 <= k < num
linspace(lo, hi, num) ==
    LET step == FDivN(FSub(hi, lo), FInt(num - 1))
    IN  [k \in 1..num |->
            IF k = num THEN hi ELSE FAdd(FMul(FInt(k - 1), step), lo)]

Thousand == FInt(1000)

None == [k |-> "none", s |-> 0, e |-> 0, m |-> << >>]

\* newton before its loop: p0 = x0 * 1.0, the second point, both residuals,
\* and p1 made the point with the smaller residual
Start(x0, target_period, w3, T, Tref) ==
    LET a0 == FMul(x0, One)
        a1 == SecondPoint(a0)
        b0 == equation(a0, target_period, w3, T, Tref)
        b1 == equation(a1, target_period, w3, T, Tref)
    IN  IF FLt(FAbs(b1), FAbs(b0))
        THEN [p0 |-> a1, p1 |-> a0, q0 |-> b1, q1 |-> b0]
        ELSE [p0 |-> a0, p1 |-> a1, q0 |-> b0, q1 |-> b1]

\* one pass of newton's for loop from (p0, q0), (p1, q1): it raises
\* RuntimeError, returns p, or goes on with the new point p and residual q
Pass(a0, a1, b0, b1, target_period, w3, T, Tref) ==
    IF FEq(b1, b0)
    THEN (IF ~FEq(a1, a0) THEN [kind |-> "raise", p |-> None, q |-> None]
          ELSE [kind |-> "return", p |-> FDivN(FAdd(a1, a0), FInt(2)), q |-> None])
    ELSE LET p == SecantStep(a0, a1, b0, b1)
         IN  IF isclose(p, a1) THEN [kind |-> "return", p |-> p, q |-> None]
             ELSE [kind |-> "next", p |-> p,
                   q |-> equation(p, target_period, w3, T, Tref)]

\* lines 70-72: the period of the reference pair at the operating temperature
LambdaAt(a3, a1, t, tr) ==
    poling_period(TRUE, a1, Partner(TRUE, a3, a1), a3, t, tr)

\* lines 92-94: the point of a converged inversion, in nanometres
Point(a3, a1) ==
    [idler |-> FMul(a1, Thousand), signal |-> FMul(Partner(FALSE, a3, a1), Thousand)]

Ap(f, y) ==
    CASE f = "BMul" -> BMul_(y[1], y[2])
      [] f = "BDivMod" -> BDivMod_(y[1], y[2])
      [] f = "BSqrt" -> BSqrt_(y[1])
      [] f = "FRound" -> FRound_(y[1], y[2], y[3], y[4])
      [] f = "FInt" -> FInt_(y[1])
      [] f = "FAdd" -> FAdd_(y[1], y[2])
      [] f = "FMul" -> FMul_(y[1], y[2])
      [] f = "FDivN" -> FDivN_(y[1], y[2])
      [] f = "FSqrt" -> FSqrt_(y[1])
      [] f = "FPow" -> FPow_(y[1], y[2], y[3])
      [] f = "FCmp" -> FCmp_(y[1], y[2])
      [] f = "LambdaAt" -> LambdaAt(y[1], y[2], y[3], y[4])
      [] f = "linspace" -> linspace(y[1], y[2], y[3])
      [] f = "w1_guess" -> w1_guess(y[1])
      [] f = "Start" -> Start(y[1], y[2], y[3], y[4], y[5])
      [] f = "Pass" -> Pass(y[1], y[2], y[3], y[4], y[5], y[6], y[7], y[8])
      [] f = "Point" -> Point(y[1], y[2])

(***************************************************************************)
(* run() (src/app.py lines 51-116).  The sidebar inputs are fixed when the *)
(* script starts; wavelengths are entered in thousandths of a micrometre   *)
(* and temperatures in whole degrees.                                      *)
(***************************************************************************)
VARIABLES w3, w1_example, T0, T_ref, auto_calc, Lambda_input, T_min, T_max,
          points, pc, error, exc, Lambda_fixed, temps, idx, idlers, signals,
          p0, p1, q0, q1, itr, w1, log, plotted

inputs == << w3, w1_example, T0, T_ref, auto_calc, Lambda_input, T_min,
             T_max, points >>
secant == << p0, p1, q0, q1, itr >>
vars == << inputs, pc, error, exc, Lambda_fixed, temps, idx, idlers, signals,
           secant, w1, log, plotted >>

\* the values tried for each sidebar input
\* (pump, example) wavelengths in nanometres
WavelengthsNm == {<< 405, 750 >>, << 405, 810 >>, << 900, 810 >>, << 900, 900 >>,
                  << 1000, 810 >>}
OperatingC == {25}
ReferenceC == {25, 50}
SweepC == {<< 25, 75 >>, << 50, 25 >>}
PointsMin == 10
\* the example wavelength left at its default when the period is typed in
ExampleDefault == 810
PointsMax == 10

Init ==
    /\ \E x \in WavelengthsNm :
          w3 = Dec(x[1], 1000) /\ w1_example = Dec(x[2], 1000)
    /\ T0 \in {FInt(x) : x \in OperatingC}
    /\ T_ref \in {FInt(x) : x \in ReferenceC}
    /\ auto_calc \in BOOLEAN
    /\ (~auto_calc => w1_example = Dec(ExampleDefault, 1000))
    /\ Lambda_input = Dec(34250, 10000)
    /\ \E r \in SweepC : T_min = FInt(r[1]) /\ T_max = FInt(r[2])
    /\ points \in PointsMin..PointsMax
    /\ pc = "check_T0"
    /\ error = "none"
    /\ exc = "none"
    /\ Lambda_fixed = None
    /\ temps = << >>
    /\ idx = 0
    /\ idlers = << >>
    /\ signals = << >>
    /\ p0 = None /\ p1 = None /\ q0 = None /\ q1 = None /\ itr = 0
    /\ w1 = None
    /\ log = << >>
    /\ plotted = FALSE

\* lines 63-66
CheckT0 ==
    /\ pc = "check_T0"
    /\ IF FLt(T0, T_ref)
       THEN error' = "T0" /\ pc' = "done"
       ELSE error' = error /\ pc' = "period"
    /\ UNCHANGED << inputs, exc, Lambda_fixed, temps, idx, idlers, signals,
                    secant, w1, log, plotted >>

\* lines 68-74
DerivePeriod ==
    /\ pc = "period"
    /\ \E L \in {IF auto_calc THEN Ap("LambdaAt", << w3, w1_example, T0, T_ref >>)
                 ELSE Lambda_input} :
          IF L.k = "zde"
          THEN exc' = "ZeroDivisionError" /\ pc' = "crashed"
               /\ Lambda_fixed' = Lambda_fixed
          ELSE exc' = exc /\ pc' = "check_range" /\ Lambda_fixed' = L
    /\ UNCHANGED << inputs, error, temps, idx, idlers, signals, secant, w1,
                    log, plotted >>

\* lines 76-87
CheckRange ==
    /\ pc = "check_range"
    /\ IF FLe(T_max, T_min)
       THEN error' = "T_max" /\ pc' = "done" /\ UNCHANGED << temps, idx >>
       ELSE error' = error /\ pc' = "loop" /\ idx' = 1
            /\ temps' = Ap("linspace", << T_min, T_max, points >>)
    /\ idlers' = << >>
    /\ signals' = << >>
    /\ UNCHANGED << inputs, exc, Lambda_fixed, secant, w1, log, plotted >>

\* lines 89-91, 39-45 and newton up to its loop: the next temperature's
\* inversion is called; forming the guess may raise ZeroDivisionError, which
\* the except RuntimeError clause of line 95 does not catch
Call ==
    /\ pc = "loop"
    /\ idx <= points
    /\ \E x0 \in {Ap("w1_guess", << w3 >>)} :
          IF x0.k = "zde"
          THEN /\ exc' = "ZeroDivisionError"
               /\ pc' = "crashed"
               /\ log' = Append(log, [T |-> temps[idx], out |-> "ZeroDivisionError",
                                      w |-> None])
               /\ UNCHANGED secant
          ELSE \E st \in {Ap("Start", << x0, Lambda_fixed, w3, temps[idx], T_ref >>)} :
                  /\ p0' = st.p0 /\ p1' = st.p1 /\ q0' = st.q0 /\ q1' = st.q1
                  /\ itr' = 0
                  /\ pc' = "newton"
                  /\ UNCHANGED << exc, log >>
    /\ UNCHANGED << inputs, error, Lambda_fixed, temps, idx, idlers, signals,
                    w1, plotted >>

\* how newton ends
Returns(v) ==
    /\ w1' = v
    /\ pc' = "emit"
    /\ log' = Append(log, [T |-> temps[idx], out |-> "value", w |-> v])
    /\ UNCHANGED secant

\* newton returning its last iterate where it raises
ReturnsStale == Returns(p1)

Raises ==
    /\ pc' = "except"
    /\ log' = Append(log, [T |-> temps[idx], out |-> "RuntimeError", w |-> None])
    /\ UNCHANGED << secant, w1 >>

\* one pass of newton's for loop, or the raise after it
Newton ==
    /\ pc = "newton"
    /\ IF itr = maxiter THEN Raises
       ELSE \E r \in {Ap("Pass", << p0, p1, q0, q1, Lambda_fixed, w3, temps[idx],
                                    T_ref >>)} :
               CASE r.kind = "raise" -> Raises
                 [] r.kind = "return" -> Returns(r.p)
                 [] OTHER -> /\ p0' = p1 /\ q0' = q1 /\ p1' = r.p /\ q1' = r.q
                             /\ itr' = itr + 1
                             /\ pc' = pc
                             /\ UNCHANGED << w1, log >>
    /\ UNCHANGED << inputs, error, exc, Lambda_fixed, temps, idx, idlers,
                    signals, plotted >>

\* lines 92-94
Emit ==
    /\ pc = "emit"
    /\ \E v \in {Ap("Point", << w3, w1 >>)} :
          /\ idlers' = Append(idlers, v.idler)
          /\ signals' = Append(signals, v.signal)
    /\ idx' = idx + 1
    /\ pc' = "loop"
    /\ UNCHANGED << inputs, error, exc, Lambda_fixed, temps, secant, w1, log,
                    plotted >>

\* the except clause leaving the failed temperature out of both lists
ExceptDrops ==
    /\ pc = "except"
    /\ idx' = idx + 1
    /\ pc' = "loop"
    /\ UNCHANGED << inputs, error, exc, Lambda_fixed, temps, idlers, signals,
                    secant, w1, log, plotted >>

\* lines 95-97
Except ==
    /\ pc = "except"
    /\ idlers' = Append(idlers, FNaN)
    /\ signals' = Append(signals, FNaN)
    /\ idx' = idx + 1
    /\ pc' = "loop"
    /\ UNCHANGED << inputs, error, exc, Lambda_fixed, temps, secant, w1, log,
                    plotted >>

\* lines 99-116
Plot ==
    /\ pc = "loop"
    /\ idx > points
    /\ plotted' = TRUE
    /\ pc' = "done"
    /\ UNCHANGED << inputs, error, exc, Lambda_fixed, temps, idx, idlers,
                    signals, secant, w1, log >>

Next ==
    \/ CheckT0
    \/ DerivePeriod
    \/ CheckRange
    \/ Call
    \/ Newton
    \/ Emit
    \/ Except
    \/ Plot

Spec == Init /\ [][Next]_vars

(***************************************************************************)
(* The claims about run() and solve_w1_for_period(), each a property of    *)
(* Spec.                                                                   *)
(***************************************************************************)
Positive(a) == FIsFinite(a) /\ FGt(a, FZero(0))

Increasing(seq) == \A i \in 1..(Len(seq) - 1) : FLt(seq[i], seq[i + 1])

\* C1: while the sweep loop runs, idlers and signals hold one entry per
\* temperature inverted so far; when it finishes they hold exactly
\* len(temps) entries, entry i being the result for temps[i]: the converged
\* point in nanometres, or NaN for both wavelengths where the inversion
\* raised RuntimeError.
C1_PositionsKept ==
    /\ Len(idlers) = Len(signals)
    /\ (pc = "loop" => Len(idlers) = idx - 1 /\ Len(log) = idx - 1)
    /\ (plotted =>
          /\ Len(idlers) = Len(temps)
          /\ Len(log) = Len(temps)
          /\ \A i \in 1..Len(temps) :
                /\ log[i].T = temps[i]
                /\ IF log[i].out = "value"
                   THEN /\ idlers[i] = Point(w3, log[i].w).idler
                        /\ signals[i] = Point(w3, log[i].w).signal
                   ELSE FIsNaN(idlers[i]) /\ FIsNaN(signals[i]))

\* a finished sweep over strictly increasing temperatures that holds both
\* failed and converged points
C1_FinishedWithGap ==
    /\ plotted
    /\ Increasing(temps)
    /\ Len(idlers) = points
    /\ \E i \in 1..Len(idlers) : FIsNaN(idlers[i]) /\ log[i].out = "RuntimeError"
    /\ \E i \in 1..Len(idlers) : ~FIsNaN(idlers[i])

\* C2: every inversion that failed, with RuntimeError or with any other
\* error raised out of solve_w1_for_period, has (or is about to get) a point
\* at its own position that is NaN for both the idler and the signal.
C2_SentinelOnEveryFailure ==
    \A i \in 1..Len(log) :
        log[i].out # "value" =>
            IF i <= Len(idlers) THEN FIsNaN(idlers[i]) /\ FIsNaN(signals[i])
            ELSE pc = "except"

\* C3: a failed inversion never aborts the sweep: the run is never ended by
\* an exception while the outcome of an inversion is a failure.
C3_FailureNeverAborts ==
    (Len(log) > 0 /\ log[Len(log)].out # "value") => (pc # "crashed" /\ exc = "none")

\* C4: with T0 < T_ref the run ends flagged, with no period derived and no
\* inversion called; with T0 >= T_ref and T_max <= T_min the run ends
\* flagged, with no inversion called and nothing plotted; T0 = T_ref is not
\* flagged.
C4_BoundaryRejection ==
    /\ (FLt(T0, T_ref) /\ pc # "check_T0" =>
          /\ error = "T0" /\ pc = "done"
          /\ Lambda_fixed = None /\ log = << >> /\ ~plotted)
    /\ (~FLt(T0, T_ref) /\ FLe(T_max, T_min)
          /\ pc \notin {"check_T0", "period", "check_range"} =>
          /\ error = "T_max" /\ pc = "done"
          /\ log = << >> /\ ~plotted)
    /\ (FEq(T0, T_ref) => error # "T0")

\* C5: no sweep is started with a period derived from the reference pair
\* that is not a positive finite number.
C5_NoSweepWithDegeneratePeriod ==
    (auto_calc /\ temps # << >>) => Positive(Lambda_fixed)

\* C6: newton returns only within its iteration budget and only a value
\* within tol of the last iterate; at the end of the budget, or when the two
\* residuals are equal at different points, it raises RuntimeError, and the
\* caller of solve_w1_for_period gets that error and no value.
C6_NeverStale ==
    [][pc = "newton" =>
         /\ itr <= maxiter
         /\ (pc' = "emit" =>
               /\ itr < maxiter
               /\ FLe(FAbs(FSub(w1', p1)), tol)
               /\ log' = Append(log, [T |-> temps[idx], out |-> "value", w |-> w1']))
         /\ (itr = maxiter => pc' = "except")
         /\ (itr < maxiter /\ FEq(q1, q0) /\ ~FEq(p1, p0) => pc' = "except")
         /\ (pc' = "except" =>
               /\ w1' = w1
               /\ log' = Append(log, [T |-> temps[idx], out |-> "RuntimeError",
                                      w |-> None]))]_vars

\* newton has used up its budget and raised
C6_BudgetExhausted ==
    /\ pc = "except"
    /\ itr = maxiter
    /\ log[Len(log)].out = "RuntimeError"
    /\ ~FLe(FAbs(FSub(p1, p0)), tol)

\* C7: newton makes at most maxiter passes, and a run that started its sweep
\* stops only after exactly one inversion per temperature.
C7_ExactlyNAttempts ==
    /\ itr <= maxiter
    /\ (pc \in {"done", "crashed"} /\ temps # << >> =>
          plotted /\ Len(log) = Len(temps))

\* C8: where the period was derived from a reference wavelength above the
\* pump, the inversion at the operating temperature returns the wavelength
\* paired with the reference one, within 1e-6.
C8_RoundTrip ==
    \A i \in 1..Len(log) :
        (auto_calc /\ FGt(w1_example, w3) /\ FEq(log[i].T, T0)) =>
            /\ log[i].out = "value"
            /\ FLe(FAbs(FSub(log[i].w, Partner(TRUE, w3, w1_example))),
                   Dec(1, 1000000))

\* C9: the wavelength paired with the reference one is positive, and every
\* converged point holds a positive idler and the positive signal paired
\* with it by 1 / (1 / w3 - 1 / w1).
C9_PositivePairs ==
    /\ (auto_calc /\ Lambda_fixed # None =>
          Positive(Partner(TRUE, w3, w1_example)))
    /\ \A i \in 1..Len(idlers) :
          log[i].out = "value" =>
              /\ signals[i] = Point(w3, log[i].w).signal
              /\ Positive(idlers[i])
              /\ Positive(signals[i])

\* C10: every call of the inverter forms its guess, and newton starts from
\* that guess, which is paired with 0.9 (to within tol) and is computed from
\* w3 alone.
C10_GuessPairsWithCompanion ==
    /\ \A i \in 1..Len(log) : log[i].out # "ZeroDivisionError"
    /\ (pc = "newton" /\ itr = 0 =>
          /\ w1_guess(w3) \in {p0, p1}
          /\ FLe(FAbs(FSub(Partner(FALSE, w3, w1_guess(w3)), Companion)), tol))

=============================================================================
